---- MODULE Spec2Model ----
(***************************************************************************)
(* Model of calculate_loan (src/app.py, lines 126-261) and of a caller     *)
(* that holds a loan configuration and invokes the function repeatedly.    *)
(*                                                                         *)
(* Amounts are exact rationals [n, d] in lowest terms with d > 0, so two   *)
(* equal amounts are equal records.  The Python floats of the source are   *)
(* modelled by exact arithmetic, with one float effect kept: the           *)
(* exponentiation (1 + r) ** n raises OverflowError when its magnitude     *)
(* exceeds the largest float, here FloatMax.  ZeroDivisionError is raised  *)
(* exactly when the denominator (1 + r) ** n - 1 is zero.                  *)
(*                                                                         *)
(* SpecUI models the rate-change rows of the two loans, kept in            *)
(* st.session_state and changed by the add, delete and reset buttons.      *)
(***************************************************************************)
EXTENDS Integers, Sequences, FiniteSets, TLC

\* ------------------------------------------------------------------ bounds
\* Number of calls of calculate_loan the caller makes.
MaxCalls == 2
\* Longest rate_changes list the caller passes.
MaxRateChanges == 1
\* Longest early_repayments list the caller builds before the first call.
MaxEarlyRepayments == 1
\* Largest magnitude a float holds (stand-in for sys.float_info.max).
FloatMax == 5000

\* --------------------------------------------------------------- constants
\* The two values of repayment_type (the radio labels of the source, written
\* here with the names of the repayment policies).
EqualPayment == "EQUAL_PAYMENT"
EqualPrincipal == "EQUAL_PRINCIPAL"
\* Months in a year (literal 12 of the source).
MonthsPerYear == 12
\* Largest number of rate-change rows a loan's list takes (lines 405, 476).
MaxRateChangeRows == 10

\* --------------------------------------------------------------- rationals
Abs(x) == IF x < 0 THEN -x ELSE x

RECURSIVE Gcd(_, _)
Gcd(a, b) == IF b = 0 THEN a ELSE Gcd(b, a % b)

\* The rational n/d in lowest terms, d # 0.
Rat(n, d) ==
    LET g == Gcd(Abs(n), Abs(d))
        s == IF d < 0 THEN -1 ELSE 1
    IN  [n |-> s * (n \div g), d |-> s * (d \div g)]

\* An integer as a rational.
R(i) == [n |-> i, d |-> 1]

RAdd(a, b) ==
    LET g == Gcd(a.d, b.d)
    IN  Rat(a.n * (b.d \div g) + b.n * (a.d \div g), (a.d \div g) * b.d)

RNeg(a) == [n |-> -a.n, d |-> a.d]

RSub(a, b) == RAdd(a, RNeg(b))

\* Product, cancelling across before multiplying.
RMul(a, b) ==
    LET g1 == Gcd(Abs(a.n), b.d)
        g2 == Gcd(Abs(b.n), a.d)
    IN  Rat((a.n \div g1) * (b.n \div g2), (a.d \div g2) * (b.d \div g1))

\* Quotient a / b, b # 0.
RDiv(a, b) == RMul(a, Rat(b.d, b.n))

RIsZero(a) == a.n = 0
RLeqZero(a) == a.n <= 0
RLtZero(a) == a.n < 0
RGtZero(a) == a.n > 0
RLt(a, b) == RLtZero(RSub(a, b))
RLeq(a, b) == RLeqZero(RSub(a, b))
RGt(a, b) == RGtZero(RSub(a, b))

\* max(0, a)
RMax0(a) == IF RLtZero(a) THEN R(0) ELSE a

\* |a| > FloatMax
ExceedsFloat(a) == Abs(a.n) > FloatMax * a.d

\* q ** n for a float q and an int n >= 0: [ok |-> TRUE, v |-> the power],
\* or ok = FALSE when the magnitude exceeds the float range (OverflowError).
RECURSIVE FloatPow(_, _)
FloatPow(q, n) ==
    IF n = 0 THEN [ok |-> TRUE, v |-> R(1)]
    ELSE LET p == FloatPow(q, n - 1)
         IN  IF ~p.ok THEN p
             ELSE IF ExceedsFloat(RMul(p.v, q)) THEN [ok |-> FALSE, v |-> R(0)]
             ELSE [ok |-> TRUE, v |-> RMul(p.v, q)]

\* math.ceil(month / 12)
CeilDiv(a, b) == (a + b - 1) \div b

\* ------------------------------------------------------------ input domain
\* loan_amount and down_payment: principal = loan_amount - down_payment is
\* 12, 0 or -12.
LoanAmounts == {24}
DownPayments == {12, 24, 36}
\* annual_interest_rate, in percent: monthly rates 0, 1 and -2.  A monthly
\* rate of -2 makes (1 + r) ** n = 1 for even n, the zero denominator.
Rates == {0, 1200, -2400}
\* loan_term_years
TermYears == {1, 2}
RepaymentTypes == {EqualPayment, EqualPrincipal}
\* The entries a caller puts into rate_changes and early_repayments.
RateChangeChoices ==
    { [month |-> 1, new_rate |-> 1200],
      [month |-> 3, new_rate |-> 2400],
      [month |-> 10, new_rate |-> 2400],
      [month |-> 13, new_rate |-> 1200] }
EarlyRepaymentChoices ==
    { [month |-> 6, amount |-> 3],
      [month |-> 6, amount |-> 100] }
\* The two loans of the page.
Loans == {"A", "B"}
\* Positions of the initial-rate slider of a loan while the user adds rows.
SliderRates == {1200, 2400}
\* Amounts of the extra payment a caller adds at month 12.
ExtraAmounts == {3}

\* Sequences over S of length at most k.
SeqsUpTo(S, k) == UNION { [1..n -> S] : n \in 0..k }

\* ------------------------------------------------------------------- state
VARIABLES
    \* the caller's configuration objects
    loan_amount, annual_interest_rate, loan_term_years, repayment_type,
    down_payment,
    early_repayments,       \* list of dicts {month, amount}, owned by the caller
    rate_changes,           \* list of dicts {month, new_rate}, owned by the caller
    early_repayments_id,    \* identity of the list object early_repayments
    \* the locals of calculate_loan
    pc,                     \* "idle" (not in a call), "loop", "after_loop"
    principal, number_of_payments_total, current_principal, total_payment,
    first_month_payment, payments_made, balance_history, annual_payments,
    rate_changes_sorted,    \* the sorted copy of rate_changes
    early_repayments_sorted,\* sorted list of references (indices) into early_repayments
    current_annual_rate, current_monthly_rate,
    month,                  \* the loop variable
    args,                   \* the arguments as they were passed at entry
    ledger,                 \* monthly_payment, interest_component, principal_component
                            \* of the iterations run so far in this call
    \* what the caller has seen
    calls,                  \* per finished call: arguments at entry, result, whether
                            \* st.error was called, and the ledger of the call
    \* st.session_state
    rate_changes_a_inputs,  \* list of dicts {month, new_rate} of loan A
    rate_changes_b_inputs,  \* the same of loan B
    varied_loan             \* the loan whose initial-rate slider the user moves

session == <<rate_changes_a_inputs, rate_changes_b_inputs, varied_loan>>
inputs == <<loan_amount, annual_interest_rate, loan_term_years, repayment_type,
            down_payment, rate_changes>>
config == <<inputs, session>>
locals == <<principal, number_of_payments_total, current_principal, total_payment,
            first_month_payment, payments_made, balance_history, annual_payments,
            rate_changes_sorted, early_repayments_sorted, current_annual_rate,
            current_monthly_rate, month, args, ledger>>
vars == <<config, early_repayments, early_repayments_id, pc, locals, calls>>

\* ----------------------------------------------------------------- helpers
Last(s) == s[Len(s)]

\* The indices of I in the order of sorted(..., key=month): ascending month,
\* equal months in list order (Python's sort is stable).
RECURSIVE SortedByMonth(_, _)
SortedByMonth(list, I) ==
    IF I = {} THEN <<>>
    ELSE LET i == CHOOSE k \in I : \A j \in I :
                     \/ list[k].month < list[j].month
                     \/ list[k].month = list[j].month /\ k <= j
         IN  <<i>> \o SortedByMonth(list, I \ {i})

\* The arguments the caller passes (the values its objects hold now).
CallerArgs == [loan_amount |-> loan_amount,
               annual_interest_rate |-> annual_interest_rate,
               loan_term_years |-> loan_term_years,
               repayment_type |-> repayment_type,
               down_payment |-> down_payment,
               early_repayments |-> early_repayments,
               early_repayments_id |-> early_repayments_id,
               rate_changes |-> rate_changes]

\* The tuple calculate_loan returns.
Result(first, total, final, history, annual) ==
    [first_month_payment |-> first, total_payment |-> total,
     final_balance |-> final, balance_history |-> history,
     annual_payments_list |-> annual]

ZeroResult == Result(R(0), R(0), R(0), <<>>, <<>>)

\* ------------------------------------------------------------------- Init
\* No call of calculate_loan has been made.
NotCalled ==
    /\ early_repayments_id = 1
    /\ pc = "idle"
    /\ principal = 0
    /\ number_of_payments_total = 0
    /\ current_principal = R(0)
    /\ total_payment = R(0)
    /\ first_month_payment = R(0)
    /\ payments_made = 0
    /\ balance_history = <<>>
    /\ annual_payments = <<>>
    /\ rate_changes_sorted = <<>>
    /\ early_repayments_sorted = <<>>
    /\ current_annual_rate = 0
    /\ current_monthly_rate = R(0)
    /\ month = 0
    /\ args = CallerArgs
    /\ ledger = <<>>
    /\ calls = <<>>

Init ==
    /\ loan_amount \in LoanAmounts
    /\ down_payment \in DownPayments
    /\ annual_interest_rate \in Rates
    /\ loan_term_years \in TermYears
    /\ repayment_type \in RepaymentTypes
    /\ early_repayments \in SeqsUpTo(EarlyRepaymentChoices, MaxEarlyRepayments)
    /\ rate_changes \in SeqsUpTo(RateChangeChoices, MaxRateChanges)
    /\ rate_changes_a_inputs = <<>>
    /\ rate_changes_b_inputs = <<>>
    /\ varied_loan = "A"
    /\ NotCalled

\* ---------------------------------------------------------- calculate_loan
\* Variant of NoLoan: the test written with < instead of <=.
NoLoan_Strict(p) == p < 0

\* The test of line 145: there is nothing to amortize.
NoLoan(p) == p <= 0

\* Entry of calculate_loan up to the loop (lines 144-170): the early return
\* for principal <= 0, the initialisation of the locals, the two sorted
\* lists and the initial rate.
Call ==
    /\ pc = "idle"
    /\ Len(calls) < MaxCalls
    /\ principal' = loan_amount - down_payment
    /\ number_of_payments_total' = loan_term_years * MonthsPerYear
    /\ current_principal' = R(principal')
    /\ total_payment' = R(0)
    /\ first_month_payment' = R(0)
    /\ payments_made' = 0
    /\ balance_history' = <<>>
    /\ annual_payments' = <<>>
    /\ args' = CallerArgs
    /\ ledger' = <<>>
    /\ month' = 0
    /\ rate_changes_sorted' =
           LET I == { i \in DOMAIN rate_changes : rate_changes[i].month > 0 }
               order == SortedByMonth(rate_changes, I)
           IN  [k \in DOMAIN order |-> rate_changes[order[k]]]
    /\ early_repayments_sorted' =
           SortedByMonth(early_repayments,
                         { i \in DOMAIN early_repayments :
                             /\ early_repayments[i].month > 0
                             /\ early_repayments[i].amount > 0 })
    /\ current_annual_rate' = annual_interest_rate
    /\ current_monthly_rate' = Rat(annual_interest_rate, 100 * 12)
    /\ IF NoLoan(principal')
       THEN /\ pc' = "idle"
            /\ calls' = Append(calls, [args |-> args', result |-> ZeroResult,
                                       error |-> FALSE, ledger |-> <<>>])
       ELSE /\ pc' = "loop"
            /\ calls' = calls
    /\ UNCHANGED <<config, early_repayments, early_repayments_id>>

\* Variant of RateChangeApplies: the change takes effect the month after.
RateChangeApplies_NextMonth(m, rc) == m = rc.month + 1

\* Lines 185-188: every entry of the sorted list whose month is this month
\* sets the rate, in list order, so the last one stands.
RateChangeApplies(m, rc) == m = rc.month

RECURSIVE ApplyRateChanges(_, _, _, _)
ApplyRateChanges(rcs, k, m, rate) ==
    IF k > Len(rcs) THEN rate
    ELSE ApplyRateChanges(rcs, k + 1, m,
             IF RateChangeApplies(m, rcs[k])
             THEN [annual |-> rcs[k].new_rate,
                   monthly |-> Rat(rcs[k].new_rate, 100 * 12)]
             ELSE rate)

\* The rate in force in month m of the running call.
RateOfMonth(m) ==
    ApplyRateChanges(rate_changes_sorted, 1, m,
                     [annual |-> current_annual_rate,
                      monthly |-> current_monthly_rate])

\* Variant of AnnuityPayment: the payment covers the interest only.
AnnuityPayment_InterestOnly(cp, r, remaining_payments) ==
    [ok |-> TRUE, payment |-> RMul(cp, r)]

\* Lines 192-207: the annuity payment for the remaining balance and term.
\* ok = FALSE is the OverflowError of the exponentiation; a zero denominator
\* (ZeroDivisionError) falls back to the linear division.
AnnuityPayment(cp, r, remaining_payments) ==
    IF remaining_payments <= 0 THEN [ok |-> TRUE, payment |-> cp]
    ELSE IF RIsZero(r)
    THEN [ok |-> TRUE, payment |-> RDiv(cp, R(remaining_payments))]
    ELSE LET pow == FloatPow(RAdd(R(1), r), remaining_payments)
         IN  IF ~pow.ok THEN [ok |-> FALSE, payment |-> R(0)]
             ELSE IF RIsZero(RSub(pow.v, R(1)))
             THEN [ok |-> TRUE, payment |-> RDiv(cp, R(remaining_payments))]
             ELSE [ok |-> TRUE,
                   payment |-> RMul(cp, RDiv(RMul(r, pow.v),
                                             RSub(pow.v, R(1))))]

\* Lines 191-216: payment, interest and principal component of one month
\* under EQUAL_PAYMENT.
EqualPaymentMonth(cp, r, N, made) ==
    LET a == AnnuityPayment(cp, r, N - made)
        interest_component == RMul(cp, r)
        raw == RSub(a.payment, interest_component)
        clamped == IF RLtZero(raw) THEN R(0) ELSE raw
    IN  IF ~a.ok
        THEN [ok |-> FALSE, monthly_payment |-> R(0),
              interest_component |-> R(0), principal_component |-> R(0)]
        ELSE IF RGt(clamped, cp)
        THEN [ok |-> TRUE, monthly_payment |-> RAdd(cp, interest_component),
              interest_component |-> interest_component,
              principal_component |-> cp]
        ELSE [ok |-> TRUE, monthly_payment |-> a.payment,
              interest_component |-> interest_component,
              principal_component |-> clamped]

\* Variant of EqualPrincipalMonth: interest charged on the original principal
\* instead of the remaining balance.
EqualPrincipalMonth_InterestOnOriginal(p, cp, r, N) ==
    LET monthly_principal_payment == RDiv(R(p), R(N))
        interest_component == RMul(R(p), r)
    IN  IF RGt(monthly_principal_payment, cp)
        THEN [ok |-> TRUE, monthly_payment |-> RAdd(cp, interest_component),
              interest_component |-> interest_component,
              principal_component |-> cp]
        ELSE [ok |-> TRUE,
              monthly_payment |-> RAdd(monthly_principal_payment,
                                       interest_component),
              interest_component |-> interest_component,
              principal_component |-> monthly_principal_payment]

\* Lines 218-229: the same under EQUAL_PRINCIPAL; p is the original principal.
EqualPrincipalMonth(p, cp, r, N) ==
    LET monthly_principal_payment == RDiv(R(p), R(N))
        interest_component == RMul(cp, r)
    IN  IF RGt(monthly_principal_payment, cp)
        THEN [ok |-> TRUE, monthly_payment |-> RAdd(cp, interest_component),
              interest_component |-> interest_component,
              principal_component |-> cp]
        ELSE [ok |-> TRUE,
              monthly_payment |-> RAdd(monthly_principal_payment,
                                       interest_component),
              interest_component |-> interest_component,
              principal_component |-> monthly_principal_payment]

\* The payment of month m of the running call, at monthly rate r.
MonthPayment(r) ==
    IF repayment_type = EqualPayment
    THEN EqualPaymentMonth(current_principal, r, number_of_payments_total,
                           payments_made)
    ELSE EqualPrincipalMonth(principal, current_principal, r,
                             number_of_payments_total)

\* Variant of ApplyEarlyRepayments: the amount is added to the balance
\* (+= written for -=).
RECURSIVE ApplyEarlyRepayments_Added(_, _, _, _, _)
ApplyEarlyRepayments_Added(sorted_refs, k, m, cp, list) ==
    IF k > Len(sorted_refs) THEN [current_principal |-> cp, list |-> list]
    ELSE LET er == list[sorted_refs[k]]
         IN  IF m = er.month /\ er.amount > 0
             THEN LET cp2 == RAdd(cp, R(er.amount))
                      list2 == [list EXCEPT ![sorted_refs[k]].amount = 0]
                  IN  IF RLeqZero(cp2)
                      THEN [current_principal |-> cp2, list |-> list2]
                      ELSE ApplyEarlyRepayments_Added(sorted_refs, k + 1, m,
                                                      cp2, list2)
             ELSE ApplyEarlyRepayments_Added(sorted_refs, k + 1, m, cp, list)

\* Lines 242-248: the early repayments of month m, taken in sorted order from
\* the balance cp; each one applied is marked by setting the amount of the
\* caller's dict to 0, and the loop stops once the balance is paid off.
\* sorted_refs are indices into list, the caller's early_repayments.
RECURSIVE ApplyEarlyRepayments(_, _, _, _, _)
ApplyEarlyRepayments(sorted_refs, k, m, cp, list) ==
    IF k > Len(sorted_refs) THEN [current_principal |-> cp, list |-> list]
    ELSE LET er == list[sorted_refs[k]]
         IN  IF m = er.month /\ er.amount > 0
             THEN LET cp2 == RSub(cp, R(er.amount))
                      list2 == [list EXCEPT ![sorted_refs[k]].amount = 0]
                  IN  IF RLeqZero(cp2)
                      THEN [current_principal |-> cp2, list |-> list2]
                      ELSE ApplyEarlyRepayments(sorted_refs, k + 1, m, cp2, list2)
             ELSE ApplyEarlyRepayments(sorted_refs, k + 1, m, cp, list)

\* Variant of PaidOff: the test written with < instead of <=.
PaidOff_Strict(cp) == RLtZero(cp)

\* Line 177: the loan is paid off.
PaidOff(cp) == RLeqZero(cp)

\* Variant of PaidOffPadding: the padding starts at the month after m.
PaidOffPadding_FromNext(m, N) ==
    [k \in 1..(N - m) |-> [month |-> m + k, balance |-> R(0)]]

\* Lines 179-180: the zero entries for month m and all later months.
PaidOffPadding(m, N) ==
    [k \in 1..(N - m + 1) |-> [month |-> m + k - 1, balance |-> R(0)]]

\* Variant of RecordedBalance: the balance recorded without max(0, .).
RecordedBalance_Raw(cp) == cp

\* Line 250: the balance recorded for a month.
RecordedBalance(cp) == RMax0(cp)

\* Variant of AddToYear: the payment replaces the year's bucket.
AddToYear_Overwrite(annual, year, payment) ==
    [y \in DOMAIN annual \cup {year} |->
        IF y = year THEN payment ELSE annual[y]]

\* Line 232: annual_payments[year] = annual_payments.get(year, 0) + payment
AddToYear(annual, year, payment) ==
    [y \in DOMAIN annual \cup {year} |->
        IF y = year
        THEN RAdd(IF y \in DOMAIN annual THEN annual[y] ELSE R(0), payment)
        ELSE annual[y]]

\* Variant of AddToTotal: = written for +=.
AddToTotal_Assign(total, payment) == payment

\* Line 234: total_payment += monthly_payment
AddToTotal(total, payment) == RAdd(total, payment)

\* Variant of CountPayment: the payment is counted twice.
CountPayment_Twice(made) == made + 2

\* Line 236: payments_made += 1
CountPayment(made) == made + 1

\* Variant of OverflowResult: the all-zero tuple.
OverflowResult_Zero(cp) == Result(R(0), R(0), R(0), <<>>, <<>>)

\* Line 207: the tuple returned when the exponentiation overflows.
OverflowResult(cp) == Result(R(0), R(0), cp, <<>>, <<>>)

\* The loop leaves for the code after it once the last month has run.
AfterMonth(m) == IF m = number_of_payments_total THEN "after_loop" ELSE "loop"

\* Lines 177-182: the loan is paid off - pad the history and break.
LoopPaidOff ==
    /\ pc = "loop"
    /\ PaidOff(current_principal)
    /\ month' = month + 1
    /\ balance_history' = balance_history \o
                          PaidOffPadding(month', number_of_payments_total)
    /\ pc' = "after_loop"
    /\ UNCHANGED <<config, early_repayments, early_repayments_id, principal, number_of_payments_total,
                   current_principal, total_payment, first_month_payment,
                   payments_made, annual_payments, rate_changes_sorted,
                   early_repayments_sorted, current_annual_rate,
                   current_monthly_rate, args, ledger, calls>>

\* Lines 184-207, 205-207: the exponentiation overflows - report and return.
LoopOverflow ==
    /\ pc = "loop"
    /\ ~PaidOff(current_principal)
    /\ month' = month + 1
    /\ LET rate == RateOfMonth(month')
       IN  /\ ~MonthPayment(rate.monthly).ok
           /\ current_annual_rate' = rate.annual
           /\ current_monthly_rate' = rate.monthly
    /\ calls' = Append(calls, [args |-> args,
                               result |-> OverflowResult(current_principal),
                               error |-> TRUE, ledger |-> ledger])
    /\ pc' = "idle"
    /\ UNCHANGED <<config, early_repayments, early_repayments_id, principal, number_of_payments_total,
                   current_principal, total_payment, first_month_payment,
                   payments_made, balance_history, annual_payments,
                   rate_changes_sorted, early_repayments_sorted, args, ledger>>

\* Lines 184-250: one month - rate change, payment, early repayments, record.
LoopPayment ==
    /\ pc = "loop"
    /\ ~PaidOff(current_principal)
    /\ month' = month + 1
    /\ LET rate == RateOfMonth(month')
           p == MonthPayment(rate.monthly)
           er == ApplyEarlyRepayments(early_repayments_sorted, 1, month',
                     RSub(current_principal, p.principal_component),
                     early_repayments)
       IN  /\ p.ok
           /\ current_annual_rate' = rate.annual
           /\ current_monthly_rate' = rate.monthly
           /\ annual_payments' = AddToYear(annual_payments,
                                     CeilDiv(month', MonthsPerYear),
                                     p.monthly_payment)
           /\ total_payment' = AddToTotal(total_payment, p.monthly_payment)
           /\ payments_made' = CountPayment(payments_made)
           /\ first_month_payment' =
                  IF month' = 1 THEN p.monthly_payment ELSE first_month_payment
           /\ current_principal' = er.current_principal
           /\ early_repayments' = er.list
           /\ balance_history' = Append(balance_history,
                  [month |-> month',
                   balance |-> RecordedBalance(er.current_principal)])
           /\ ledger' = Append(ledger,
                  [month |-> month', rate |-> rate.annual,
                   balance |-> current_principal,
                   monthly_payment |-> p.monthly_payment,
                   interest_component |-> p.interest_component,
                   principal_component |-> p.principal_component])
    /\ pc' = AfterMonth(month')
    /\ UNCHANGED <<config, early_repayments_id, principal,
                   number_of_payments_total, rate_changes_sorted,
                   early_repayments_sorted, args, calls>>

\* Lines 254-255: pad the history up to the term.
PadHistory(history, N) ==
    history \o [k \in 1..(N - Len(history)) |->
                   [month |-> Len(history) + k, balance |-> R(0)]]

\* Lines 258-259: the dict as a list of {year, total_payment}, sorted by year.
RECURSIVE AnnualList(_, _)
AnnualList(annual, Y) ==
    IF Y = {} THEN <<>>
    ELSE LET y == CHOOSE k \in Y : \A j \in Y : k <= j
         IN  <<[year |-> y, total_payment |-> annual[y]]>>
             \o AnnualList(annual, Y \ {y})

\* Lines 253-261: after the loop - pad, convert the annual totals, return.
Return ==
    /\ pc = "after_loop"
    /\ balance_history' = PadHistory(balance_history, number_of_payments_total)
    /\ calls' = Append(calls,
           [args |-> args,
            result |-> Result(first_month_payment, total_payment,
                              RMax0(current_principal), balance_history',
                              AnnualList(annual_payments, DOMAIN annual_payments)),
            error |-> FALSE, ledger |-> ledger])
    /\ pc' = "idle"
    /\ UNCHANGED <<config, early_repayments, early_repayments_id, principal, number_of_payments_total,
                   current_principal, total_payment, first_month_payment,
                   payments_made, annual_payments, rate_changes_sorted,
                   early_repayments_sorted, current_annual_rate,
                   current_monthly_rate, month, args, ledger>>

\* ------------------------------------------------------------------ caller
\* Between two calls the caller builds a fresh early_repayments list (as
\* lines 368-370 do on every run of the script): the entries it passed to the
\* last call, and one more early repayment at month 12.
NewEarlyRepayments ==
    /\ pc = "idle"
    /\ calls # <<>>
    /\ Len(calls) < MaxCalls
    /\ \E a \in ExtraAmounts :
          early_repayments' = Append(Last(calls).args.early_repayments,
                                     [month |-> 12, amount |-> a])
    /\ early_repayments_id = Last(calls).args.early_repayments_id
    /\ early_repayments_id' = early_repayments_id + 1
    /\ UNCHANGED <<config, pc, locals, calls>>

Next ==
    \/ Call
    \/ LoopPaidOff
    \/ LoopOverflow
    \/ LoopPayment
    \/ Return
    \/ NewEarlyRepayments

Spec == Init /\ [][Next]_vars

\* ------------------------------------------------- rate-change rows (UI)
\* The rows of the two loans are kept in st.session_state and changed by the
\* buttons of the page, one event per run of the script.  A number_input of
\* a row returns the row's stored value unless the user edits it.

\* Every part of the state but the two session lists.
unchanged_by_buttons ==
    <<inputs, varied_loan, early_repayments, early_repayments_id, pc, locals,
      calls>>

\* Rates the initial-rate slider of a loan takes during the session.
SliderRatesOf(loan) == IF loan = varied_loan THEN SliderRates ELSE {1200}

\* Lines 406, 477: the row an add button appends.
NewRow(rate) == [month |-> 1, new_rate |-> rate]

\* Variant of CanAdd: the test written with <= instead of <.
CanAdd_Inclusive(list) == Len(list) <= MaxRateChangeRows

\* Lines 405, 476: len(...) < 10
CanAdd(list) == Len(list) < MaxRateChangeRows

\* Lines 403-409, 474-480: the add button (a warning when the list is full).
AddRow(list, rate) ==
    IF CanAdd(list) THEN Append(list, NewRow(rate)) ELSE list

\* Lines 396-400, 467-471: the list is rebuilt from the inputs of its rows and
\* the row of the pressed delete button is removed.
DeleteRow(list, i) == SubSeq(list, 1, i - 1) \o SubSeq(list, i + 1, Len(list))

\* Lines 387-396, 458-467: the user edits the new rate of row i.
EditRow(list, i, rate) == [list EXCEPT ![i].new_rate = rate]

AddA ==
    /\ \E rate \in SliderRatesOf("A") :
          rate_changes_a_inputs' = AddRow(rate_changes_a_inputs, rate)
    /\ UNCHANGED <<rate_changes_b_inputs, unchanged_by_buttons>>

DeleteRowA(i) ==
    /\ i \in DOMAIN rate_changes_a_inputs
    /\ rate_changes_a_inputs' = DeleteRow(rate_changes_a_inputs, i)
    /\ UNCHANGED <<rate_changes_b_inputs, unchanged_by_buttons>>

DeleteA == \E i \in 1..MaxRateChangeRows : DeleteRowA(i)

\* Lines 411-414.
ResetA ==
    /\ rate_changes_a_inputs' = <<>>
    /\ UNCHANGED <<rate_changes_b_inputs, unchanged_by_buttons>>

EditA ==
    /\ \E i \in DOMAIN rate_changes_a_inputs, rate \in SliderRatesOf("A") :
          rate_changes_a_inputs' = EditRow(rate_changes_a_inputs, i, rate)
    /\ UNCHANGED <<rate_changes_b_inputs, unchanged_by_buttons>>

AddB ==
    /\ \E rate \in SliderRatesOf("B") :
          rate_changes_b_inputs' = AddRow(rate_changes_b_inputs, rate)
    /\ UNCHANGED <<rate_changes_a_inputs, unchanged_by_buttons>>

DeleteRowB(i) ==
    /\ i \in DOMAIN rate_changes_b_inputs
    /\ rate_changes_b_inputs' = DeleteRow(rate_changes_b_inputs, i)
    /\ UNCHANGED <<rate_changes_a_inputs, unchanged_by_buttons>>

DeleteB == \E i \in 1..MaxRateChangeRows : DeleteRowB(i)

\* Lines 482-485.
ResetB ==
    /\ rate_changes_b_inputs' = <<>>
    /\ UNCHANGED <<rate_changes_a_inputs, unchanged_by_buttons>>

EditB ==
    /\ \E i \in DOMAIN rate_changes_b_inputs, rate \in SliderRatesOf("B") :
          rate_changes_b_inputs' = EditRow(rate_changes_b_inputs, i, rate)
    /\ UNCHANGED <<rate_changes_a_inputs, unchanged_by_buttons>>

\* Lines 340-345: both lists start empty; no call is modelled here.
InitUI ==
    /\ loan_amount = 24
    /\ down_payment = 12
    /\ annual_interest_rate = 1200
    /\ loan_term_years = 1
    /\ repayment_type = EqualPayment
    /\ early_repayments = <<>>
    /\ rate_changes = <<>>
    /\ rate_changes_a_inputs = <<>>
    /\ rate_changes_b_inputs = <<>>
    /\ varied_loan \in Loans
    /\ NotCalled

NextUI ==
    \/ AddA
    \/ DeleteA
    \/ ResetA
    \/ EditA
    \/ AddB
    \/ DeleteB
    \/ ResetB
    \/ EditB

SpecUI == InitUI /\ [][NextUI]_vars

\* ------------------------------------------------------------- properties
\* Notions used in the properties, read off the arguments of a finished call.
Principal(a) == a.loan_amount - a.down_payment
TermMonths(a) == a.loan_term_years * MonthsPerYear

\* principal_amount - down_payment > 0 and term_years >= 1
Valid(a) == Principal(a) > 0 /\ a.loan_term_years >= 1

\* A valid config whose initial annual rate is > 0 as well.
ValidRated(a) == Valid(a) /\ a.annual_interest_rate > 0

\* The initial rate and every new rate are > 0 (resp. >= 0).
RatesPositive(a) ==
    /\ a.annual_interest_rate > 0
    /\ \A i \in DOMAIN a.rate_changes : a.rate_changes[i].new_rate > 0
RatesNonNegative(a) ==
    /\ a.annual_interest_rate >= 0
    /\ \A i \in DOMAIN a.rate_changes : a.rate_changes[i].new_rate >= 0

\* Sum of the monthly payments of the first k ledger entries.
RECURSIVE SumPayments(_, _)
SumPayments(l, k) ==
    IF k = 0 THEN R(0) ELSE RAdd(SumPayments(l, k - 1), l[k].monthly_payment)

\* The balance_history has one entry per month 1..term_months, in order.
TraceComplete(c) ==
    LET h == c.result.balance_history
    IN  /\ Len(h) = TermMonths(c.args)
        /\ \A k \in DOMAIN h : h[k].month = k

\* C1 as stated, already for the valid configs with an initial rate > 0: the
\* balance_history has exactly term_years * 12 entries, for the months
\* 1, 2, ..., term_years * 12 in order.
C1_Original ==
    \A i \in DOMAIN calls : ValidRated(calls[i].args) => TraceComplete(calls[i])

\* C1 (amended): for every valid config whose run is not aborted by the
\* overflow of the exponentiation, the balance_history has exactly
\* term_years * 12 entries, for the months 1, 2, ..., term_years * 12 in
\* order, whether or not the loan is paid off early.
C1_TraceLength ==
    \A i \in DOMAIN calls :
        Valid(calls[i].args) /\ ~calls[i].error => TraceComplete(calls[i])

\* A valid call paid off before the end of the term (fewer payments than
\* months) has returned its full history.
C1_Witness ==
    \E i \in DOMAIN calls :
        /\ Valid(calls[i].args) /\ ~calls[i].error
        /\ Len(calls[i].ledger) + 1 < TermMonths(calls[i].args)
        /\ Len(calls[i].result.balance_history) = TermMonths(calls[i].args)

\* C2: calculate_loan leaves the caller's rate_changes and early_repayments
\* unchanged, so a second call with the same list object is made with equal
\* arguments and returns an equal result.
C2_NoSideEffect ==
    \A i \in DOMAIN calls :
        (i > 1 /\ calls[i].args.early_repayments_id
                    = calls[i - 1].args.early_repayments_id)
        => /\ calls[i].args = calls[i - 1].args
           /\ calls[i].result = calls[i - 1].result

\* C3: for every config with down_payment >= loan_amount the result is the
\* zero result (0, 0, 0, [], []), nothing is reported, and the monthly loop
\* is not run.
C3_ZeroResult ==
    /\ \A i \in DOMAIN calls :
          Principal(calls[i].args) <= 0
          => /\ calls[i].result = [first_month_payment |-> R(0),
                                   total_payment |-> R(0),
                                   final_balance |-> R(0),
                                   balance_history |-> <<>>,
                                   annual_payments_list |-> <<>>]
             /\ ~calls[i].error
             /\ calls[i].ledger = <<>>
    /\ pc # "idle" => Principal(args) > 0

\* A call with down_payment >= loan_amount, with rate changes and early
\* repayments passed, has returned.
C3_Witness ==
    \E i \in DOMAIN calls :
        /\ Principal(calls[i].args) <= 0
        /\ calls[i].args.rate_changes # <<>>
        /\ calls[i].args.early_repayments # <<>>
        /\ calls[i].result.balance_history = <<>>

\* C4: for a valid config with rates > 0, every recorded balance is >= 0 and
\* <= the balance recorded before it (the first <= the principal), and the
\* returned final_balance is >= 0.
C4_BalanceMonotone ==
    \A i \in DOMAIN calls :
        LET a == calls[i].args
            h == calls[i].result.balance_history
        IN  Valid(a) /\ RatesPositive(a)
            => /\ \A k \in DOMAIN h :
                    /\ ~RLtZero(h[k].balance)
                    /\ RLeq(h[k].balance,
                            IF k = 1 THEN R(Principal(a)) ELSE h[k - 1].balance)
               /\ ~RLtZero(calls[i].result.final_balance)

\* A valid call with rates > 0, a rate change and an early repayment larger
\* than the balance has returned a history.
C4_Witness ==
    \E i \in DOMAIN calls :
        LET a == calls[i].args
        IN  /\ Valid(a) /\ RatesPositive(a)
            /\ a.rate_changes # <<>>
            /\ \E j \in DOMAIN a.early_repayments :
                  a.early_repayments[j].amount > Principal(a)
            /\ calls[i].result.balance_history # <<>>

\* The ledger of a call has one entry per month 1..k, and when k is less than
\* the term the balance recorded at month k is 0 (k is the payoff month).
PaymentsUpToPayoff(c) ==
    /\ \A k \in DOMAIN c.ledger : c.ledger[k].month = k
    /\ Len(c.ledger) < TermMonths(c.args)
       => c.result.balance_history[Len(c.ledger)].balance = R(0)

\* C5 as stated, already for the valid configs with an initial rate > 0:
\* total_paid is the sum of the monthly payments of the months in which a
\* payment was applied.
C5_Original ==
    \A i \in DOMAIN calls :
        ValidRated(calls[i].args)
        => calls[i].result.total_payment
             = SumPayments(calls[i].ledger, Len(calls[i].ledger))

\* C5 (amended): for every valid config whose run is not aborted by the
\* overflow of the exponentiation, total_paid is the sum of the monthly
\* payments of the months 1 up to the payoff month; later months and early
\* repayment amounts add nothing.
C5_TotalPaid ==
    \A i \in DOMAIN calls :
        Valid(calls[i].args) /\ ~calls[i].error
        => /\ calls[i].result.total_payment
                = SumPayments(calls[i].ledger, Len(calls[i].ledger))
           /\ PaymentsUpToPayoff(calls[i])

\* A valid call in which an early repayment paid the loan off before the end
\* of the term has returned a positive total.
C5_Witness ==
    \E i \in DOMAIN calls :
        /\ Valid(calls[i].args) /\ ~calls[i].error
        /\ Len(calls[i].ledger) \in 2..(TermMonths(calls[i].args) - 1)
        /\ calls[i].args.early_repayments # <<>>
        /\ RGtZero(calls[i].result.total_payment)

\* b is the config a with one more early repayment, at month 12, of a
\* positive amount; everything else is equal.
AddsExtraAt12(a, b) ==
    /\ Len(b.early_repayments) = Len(a.early_repayments) + 1
    /\ SubSeq(b.early_repayments, 1, Len(a.early_repayments)) = a.early_repayments
    /\ Last(b.early_repayments).month = 12
    /\ Last(b.early_repayments).amount > 0
    /\ [b EXCEPT !.early_repayments = a.early_repayments,
                 !.early_repayments_id = a.early_repayments_id] = a

\* The result of call j costs strictly less than that of call i: total_paid or
\* final_balance is strictly smaller.
StrictlyCheaper(j, i) ==
    \/ RLt(calls[j].result.total_payment, calls[i].result.total_payment)
    \/ RLt(calls[j].result.final_balance, calls[i].result.final_balance)

OpenAfterMonth12(c) ==
    /\ ~c.error
    /\ TermMonths(c.args) > 12
    /\ RGtZero(c.result.balance_history[12].balance)

UniqueMonths(a) ==
    \A i, j \in DOMAIN a.rate_changes :
        a.rate_changes[i].month = a.rate_changes[j].month => i = j

\* The annual rate in force in month k by the schedule of the config: the new
\* rate of the latest rate change at or before month k, else the initial rate.
EffectiveRate(a, k) ==
    LET S == { i \in DOMAIN a.rate_changes : a.rate_changes[i].month \in 1..k }
    IN  IF S = {} THEN a.annual_interest_rate
        ELSE a.rate_changes[CHOOSE i \in S : \A j \in S :
                 a.rate_changes[j].month <= a.rate_changes[i].month].new_rate

\* C7: a rate change scheduled at month m is applied before month m's payment
\* is computed: the interest component of every month k is the balance times
\* the rate of the latest change at or before k (the initial rate before the
\* first change) / 100 / 12, the payment is made of that interest, and
\* first_month_payment is the payment of month 1 at the rate in force there.
C7_RateChangeAtItsMonth ==
    \A i \in DOMAIN calls :
        LET a == calls[i].args
            l == calls[i].ledger
        IN  UniqueMonths(a)
            => /\ \A k \in DOMAIN l :
                    /\ l[k].month = k
                    /\ l[k].rate = EffectiveRate(a, k)
                    /\ l[k].interest_component
                         = RMul(l[k].balance, Rat(EffectiveRate(a, k), 100 * 12))
                    /\ RatesNonNegative(a)
                       => l[k].monthly_payment
                            = RAdd(l[k].principal_component,
                                   l[k].interest_component)
               /\ (l # <<>> /\ ~calls[i].error)
                  => calls[i].result.first_month_payment = l[1].monthly_payment

\* An EQUAL_PAYMENT call whose rate changed in a month after the first: the
\* ledger has the new rate from that month on and the old rate before it.
C7_Witness ==
    \E i \in DOMAIN calls :
        LET a == calls[i].args
            l == calls[i].ledger
        IN  /\ UniqueMonths(a) /\ ~calls[i].error
            /\ a.repayment_type = EqualPayment
            /\ \E k \in DOMAIN l :
                  /\ k > 1 /\ k < Len(l)
                  /\ l[k].rate # l[k - 1].rate
                  /\ l[k + 1].rate = l[k].rate

\* Sum of the amounts of the early repayments of month p.
RECURSIVE SumExtrasAt(_, _, _)
SumExtrasAt(ers, n, p) ==
    IF n = 0 THEN 0
    ELSE SumExtrasAt(ers, n - 1, p)
         + (IF ers[n].month = p /\ ers[n].amount > 0 THEN ers[n].amount ELSE 0)

\* Sum of the first n entries of annual_payments_list.
RECURSIVE SumAnnual(_, _)
SumAnnual(al, n) ==
    IF n = 0 THEN R(0) ELSE RAdd(SumAnnual(al, n - 1), al[n].total_payment)

\* In month p, before the end of the term, the scheduled payment left a
\* positive balance and the early repayments of that month cover it.
PaidOffByExtrasAt(c, p) ==
    /\ p \in DOMAIN c.ledger
    /\ p < TermMonths(c.args)
    /\ LET rest == RSub(c.ledger[p].balance, c.ledger[p].principal_component)
       IN  /\ RGtZero(rest)
           /\ RLeq(rest, R(SumExtrasAt(c.args.early_repayments,
                                       Len(c.args.early_repayments), p)))

\* C8: when early repayments bring the balance to <= 0 in a month p before the
\* end of the term, final_balance is 0, the recorded balance of every month
\* p..term_months is 0, and no payment of a month after p is in total_paid or
\* in annual_totals.
C8_EarlyPayoff ==
    \A i \in DOMAIN calls :
        \A p \in DOMAIN calls[i].ledger :
            PaidOffByExtrasAt(calls[i], p)
            => LET c == calls[i]
                   r == c.result
               IN  /\ ~c.error
                   /\ r.final_balance = R(0)
                   /\ Len(r.balance_history) = TermMonths(c.args)
                   /\ \A k \in p..TermMonths(c.args) :
                         r.balance_history[k].balance = R(0)
                   /\ Len(c.ledger) = p
                   /\ r.total_payment = SumPayments(c.ledger, p)
                   /\ \A y \in DOMAIN r.annual_payments_list :
                         r.annual_payments_list[y].year
                           <= CeilDiv(p, MonthsPerYear)
                   /\ SumAnnual(r.annual_payments_list,
                                Len(r.annual_payments_list)) = r.total_payment

\* A two-year loan paid off by early repayments in its first year.
C8_Witness ==
    \E i \in DOMAIN calls :
        /\ calls[i].args.loan_term_years = 2
        /\ \E p \in DOMAIN calls[i].ledger : PaidOffByExtrasAt(calls[i], p)
        /\ Len(calls[i].result.annual_payments_list) = 1

\* The exponentiation of the annuity formula for the month after the ledger
\* of c, at monthly rate r, overflows.
OverflowsAfter(c, r) ==
    ~FloatPow(RAdd(R(1), r), TermMonths(c.args) - Len(c.ledger)).ok

\* The denominator of the annuity formula in month k of c is zero.
ZeroDenominator(c, k) ==
    LET r == Rat(c.ledger[k].rate, 100 * 12)
        pow == FloatPow(RAdd(R(1), r), TermMonths(c.args) - k + 1)
    IN  /\ c.args.repayment_type = EqualPayment
        /\ ~RIsZero(r)
        /\ pow.ok /\ pow.v = R(1)

\* The principal component from the payment balance / remaining payments.
FallbackPrincipal(c, k) ==
    LET e == c.ledger[k]
        raw == RSub(RDiv(e.balance, R(TermMonths(c.args) - k + 1)),
                    e.interest_component)
    IN  IF RLtZero(raw) THEN R(0)
        ELSE IF RGt(raw, e.balance) THEN e.balance ELSE raw

\* C9: the error conditions end in a returned result: a call reports an error
\* exactly when the exponentiation overflowed in the month it stopped at, and
\* then returns (0, 0, balance at the abort, [], []); a month with a zero
\* denominator is computed from balance / remaining payments and the call
\* goes on without a report.
C9_ErrorsResolved ==
    /\ \A i \in DOMAIN calls :
          LET c == calls[i]
          IN  /\ c.error
                 => /\ c.args.repayment_type = EqualPayment
                    /\ c.result.first_month_payment = R(0)
                    /\ c.result.total_payment = R(0)
                    /\ RGtZero(c.result.final_balance)
                    /\ c.result.balance_history = <<>>
                    /\ c.result.annual_payments_list = <<>>
              /\ \A k \in DOMAIN c.ledger :
                    ZeroDenominator(c, k)
                    => c.ledger[k].principal_component = FallbackPrincipal(c, k)
    /\ (pc = "idle" /\ calls # <<>>)
       => /\ Last(calls).error <=> (/\ Valid(Last(calls).args)
                                    /\ pc = "idle"
                                    /\ Last(calls).args.repayment_type = EqualPayment
                                    /\ RGtZero(current_principal)
                                    /\ Len(ledger) < number_of_payments_total
                                    /\ ~RIsZero(current_monthly_rate)
                                    /\ OverflowsAfter(Last(calls),
                                                      current_monthly_rate))
          /\ Last(calls).error
             => Last(calls).result.final_balance = current_principal

\* A call aborted by the overflow after some months had been paid.
C9_Witness ==
    \E i \in DOMAIN calls : calls[i].error /\ calls[i].ledger # <<>>

\* C10: with EQUAL_PRINCIPAL, rate > 0, no rate changes and no early
\* repayments, every month has the principal component principal /
\* term_months, and each payment from month 2 on is strictly smaller than the
\* payment of the month before.
C10_EqualPrincipalShape ==
    \A i \in DOMAIN calls :
        LET a == calls[i].args
            l == calls[i].ledger
        IN  /\ Valid(a)
            /\ a.repayment_type = EqualPrincipal
            /\ a.annual_interest_rate > 0
            /\ a.rate_changes = <<>>
            /\ a.early_repayments = <<>>
            => /\ Len(l) = TermMonths(a)
               /\ \A k \in DOMAIN l :
                     /\ l[k].principal_component
                          = Rat(Principal(a), TermMonths(a))
                     /\ k > 1 => RLt(l[k].monthly_payment,
                                     l[k - 1].monthly_payment)

\* A two-year EQUAL_PRINCIPAL loan at a positive rate without events has been
\* computed to its last month.
C10_Witness ==
    \E i \in DOMAIN calls :
        /\ Valid(calls[i].args)
        /\ calls[i].args.repayment_type = EqualPrincipal
        /\ calls[i].args.annual_interest_rate > 0
        /\ calls[i].args.rate_changes = <<>>
        /\ calls[i].args.early_repayments = <<>>
        /\ calls[i].args.loan_term_years = 2
        /\ Len(calls[i].ledger) = 24

\* Sum of the monthly payments of the ledger entries a..b.
RECURSIVE SumPaymentsBetween(_, _, _)
SumPaymentsBetween(l, a, b) ==
    IF b < a THEN R(0)
    ELSE RAdd(SumPaymentsBetween(l, a, b - 1), l[b].monthly_payment)

\* The smaller of two integers.
Min(a, b) == IF a <= b THEN a ELSE b

\* The annual_payments_list of c has one entry per year 1..k, in ascending
\* order, k being the year of the last month with a payment; the entry of
\* year y is the sum of the payments of the months 12*(y-1)+1 .. 12*y, and
\* the entries sum to total_payment.
AnnualTotalsOfLedger(c) ==
    LET al == c.result.annual_payments_list
        n == Len(c.ledger)
    IN  /\ Len(al) = CeilDiv(n, MonthsPerYear)
        /\ \A y \in DOMAIN al :
              /\ al[y].year = y
              /\ al[y].total_payment
                   = SumPaymentsBetween(c.ledger, MonthsPerYear * (y - 1) + 1,
                                        Min(MonthsPerYear * y, n))
        /\ SumAnnual(al, Len(al)) = c.result.total_payment

\* C11 as stated, already for the valid configs with an initial rate > 0: the
\* entry of year y is the sum of the payments applied in the months of year
\* y, the years are 1..k in ascending order with k the year of the last
\* month that had a payment, and the entries sum to total_paid.
C11_Original ==
    \A i \in DOMAIN calls :
        ValidRated(calls[i].args) => AnnualTotalsOfLedger(calls[i])

\* C11 (amended): for every valid config whose run is not aborted by the
\* overflow of the exponentiation, the entry of year y in annual_totals is
\* the sum of the payments applied in months 12*(y-1)+1 .. 12*y, the years
\* are 1..k in strictly ascending order with k the year of the last month
\* that had a payment, years after the payoff are omitted, and the entries
\* sum to total_paid.
C11_AnnualTotals ==
    \A i \in DOMAIN calls :
        Valid(calls[i].args) /\ ~calls[i].error
        => AnnualTotalsOfLedger(calls[i])

\* A two-year loan paid off during its second year: two annual entries, the
\* second one for fewer than twelve months.
C11_Witness ==
    \E i \in DOMAIN calls :
        /\ Valid(calls[i].args) /\ ~calls[i].error
        /\ Len(calls[i].ledger) \in 13..23
        /\ Len(calls[i].result.annual_payments_list) = 2
        /\ RGtZero(calls[i].result.annual_payments_list[2].total_payment)

\* C12: at the start of every loop iteration, in particular of one that
\* computes a payment for month m = month + 1, payments_made = m - 1, so
\* remaining_payments = number_of_payments_total - payments_made is >= 1 and
\* the branch remaining_payments <= 0 of lines 194-195 is not taken.
C12_RemainingPayments ==
    pc = "loop"
    => /\ payments_made = month
       /\ number_of_payments_total - payments_made >= 1

\* The last iteration of an EQUAL_PAYMENT loan still open is about to run:
\* remaining_payments is exactly 1.
C12_Witness ==
    /\ pc = "loop"
    /\ repayment_type = EqualPayment
    /\ ~PaidOff(current_principal)
    /\ month >= 1
    /\ number_of_payments_total - payments_made = 1

WithoutRow(list, i) ==
    [k \in 1..(Len(list) - 1) |-> IF k < i THEN list[k] ELSE list[k + 1]]

\* The step from list to list2 of an add button: one row appended when the
\* list has fewer than 10 rows, nothing otherwise.
AddedOneRow(list, list2) ==
    IF Len(list) < 10
    THEN Len(list2) = Len(list) + 1 /\ SubSeq(list2, 1, Len(list)) = list
    ELSE list2 = list

\* C14: after any sequence of add, delete and reset events, starting from
\* the empty lists, each loan's session list has at most 10 entries; add
\* appends one row only when the list has fewer than 10, delete removes
\* exactly the chosen row, reset empties the list, and an event of one loan
\* leaves the list of the other loan unchanged.
C14_RateChangeRows ==
    /\ [](Len(rate_changes_a_inputs) <= 10 /\ Len(rate_changes_b_inputs) <= 10)
    /\ [][/\ AddA => /\ AddedOneRow(rate_changes_a_inputs, rate_changes_a_inputs')
                     /\ rate_changes_b_inputs' = rate_changes_b_inputs
          /\ AddB => /\ AddedOneRow(rate_changes_b_inputs, rate_changes_b_inputs')
                     /\ rate_changes_a_inputs' = rate_changes_a_inputs
          /\ \A i \in 1..10 :
                /\ DeleteRowA(i)
                   => /\ rate_changes_a_inputs' = WithoutRow(rate_changes_a_inputs, i)
                      /\ rate_changes_b_inputs' = rate_changes_b_inputs
                /\ DeleteRowB(i)
                   => /\ rate_changes_b_inputs' = WithoutRow(rate_changes_b_inputs, i)
                      /\ rate_changes_a_inputs' = rate_changes_a_inputs
          /\ ResetA => /\ rate_changes_a_inputs' = <<>>
                       /\ rate_changes_b_inputs' = rate_changes_b_inputs
          /\ ResetB => /\ rate_changes_b_inputs' = <<>>
                       /\ rate_changes_a_inputs' = rate_changes_a_inputs
         ]_vars

\* Loan A's list is full, with rows that differ, while loan B's list has
\* some rows and is not full.
C14_Witness ==
    /\ Len(rate_changes_a_inputs) = 10
    /\ \E i, j \in DOMAIN rate_changes_a_inputs :
          rate_changes_a_inputs[i] # rate_changes_a_inputs[j]
    /\ Len(rate_changes_b_inputs) \in 1..9

====
